---------------------------- MODULE Spec2Model ----------------------------
(***************************************************************************)
(* docker-platformify: a proxy between a client and the Docker socket that *)
(* injects a "platform" query parameter into "POST .../images/create"      *)
(* request lines.  One session is modelled: handleConnection (the          *)
(* client -> docker relay, which scans and rewrites) and the goroutine     *)
(* forwardAll (the docker -> client relay).                                *)
(*                                                                         *)
(* A byte string is a sequence of one-character strings.  Positions and    *)
(* lengths are Go's: indices are 0-based and Slice(s, lo, hi) is s[lo:hi]. *)
(***************************************************************************)
EXTENDS Integers, Sequences, FiniteSets, TLC

(***************************************************************************)
(* Bytes.                                                                  *)
(***************************************************************************)

\* The printable ASCII characters, in code order: Printable[i] has code 31 + i
\* (the grave accent, code 96, is written GRAVE).
Printable ==
    << " ", "!", "\"", "#", "$", "%", "&", "'", "(", ")", "*", "+", ",", "-", ".", "/",
       "0", "1", "2", "3", "4", "5", "6", "7", "8", "9", ":", ";", "<", "=", ">", "?", "@",
       "A", "B", "C", "D", "E", "F", "G", "H", "I", "J", "K", "L", "M", "N", "O", "P", "Q",
       "R", "S", "T", "U", "V", "W", "X", "Y", "Z", "[", "\\", "]", "^", "_", "GRAVE", "a",
       "b", "c", "d", "e", "f", "g", "h", "i", "j", "k", "l", "m", "n", "o", "p", "q", "r",
       "s", "t", "u", "v", "w", "x", "y", "z", "{", "|", "}", "~" >>

\* The byte value of a character (tab, line feed, carriage return, printable).
Code(c) ==
    IF c = "\t" THEN 9
    ELSE IF c = "\n" THEN 10
    ELSE IF c = "\r" THEN 13
    ELSE 31 + (CHOOSE i \in 1..Len(Printable) : Printable[i] = c)

\* The character of a byte value; only the values Code yields have one.
Chr(n) ==
    IF n = 9 THEN "\t"
    ELSE IF n = 10 THEN "\n"
    ELSE IF n = 13 THEN "\r"
    ELSE Printable[n - 31]

\* The zero byte a fresh Go buffer is filled with.
NUL == "NUL"

Min(S) == CHOOSE x \in S : \A y \in S : x <= y

\* s[lo:hi]
Slice(s, lo, hi) == SubSeq(s, lo + 1, hi)

\* s[lo:]
SliceFrom(s, lo) == SubSeq(s, lo + 1, Len(s))

\* The first position from i on at which sep occurs in s, or -1.
RECURSIVE IndexFrom(_, _, _)
IndexFrom(s, sep, i) ==
    IF i + Len(sep) > Len(s) THEN -1
    ELSE IF \A j \in 1..Len(sep) : s[i + j] = sep[j] THEN i
    ELSE IndexFrom(s, sep, i + 1)

\* bytes.Index / strings.Index: the first position of sep in s, or -1.
Index(s, sep) == IndexFrom(s, sep, 0)

\* bytes.Contains
Contains(s, sep) == Index(s, sep) >= 0

\* strings.HasPrefix
HasPrefix(s, p) == Len(s) >= Len(p) /\ SubSeq(s, 1, Len(p)) = p

\* strings.IndexAny: the first position of any character of chars in s, or -1.
IndexAny(s, chars) ==
    LET hits == { i \in 0..(Len(s) - 1) : s[i + 1] \in chars }
    IN  IF hits = {} THEN -1 ELSE Min(hits)

\* strings.Count for a one-character separator.
Count(s, c) == Cardinality({ i \in 1..Len(s) : s[i] = c })

\* bytes.SplitN(s, sep, n) for n > 0: at most n pieces, the last one the
\* unsplit remainder.
RECURSIVE SplitN(_, _, _)
SplitN(s, sep, n) ==
    LET i == Index(s, sep)
    IN  IF n <= 1 \/ i < 0 THEN << s >>
        ELSE << Slice(s, 0, i) >> \o SplitN(SliceFrom(s, i + Len(sep)), sep, n - 1)

\* bytes.Join
RECURSIVE Join(_, _)
Join(parts, sep) ==
    IF Len(parts) = 0 THEN << >>
    ELSE IF Len(parts) = 1 THEN parts[1]
    ELSE parts[1] \o sep \o Join(Tail(parts), sep)

\* Go's string order (byte-wise lexicographic): a < b.
RECURSIVE StrLess(_, _)
StrLess(a, b) ==
    IF Len(b) = 0 THEN FALSE
    ELSE IF Len(a) = 0 THEN TRUE
    ELSE IF a[1] = b[1] THEN StrLess(Tail(a), Tail(b))
    ELSE Code(a[1]) < Code(b[1])

(***************************************************************************)
(* net/url, as far as injectPlatform uses it (Go 1.14, the toolchain the   *)
(* repository's Dockerfile builds with).  Modelled for request targets     *)
(* without a scheme and without an authority ("//..."), which is what a    *)
(* Docker API client sends.                                                *)
(***************************************************************************)

Digits == { "0", "1", "2", "3", "4", "5", "6", "7", "8", "9" }

Letters == { Printable[i] : i \in (34..59) \cup (66..91) }

HexDigits ==
    << "0", "1", "2", "3", "4", "5", "6", "7", "8", "9", "A", "B", "C", "D", "E", "F" >>

\* url.ishex
ishex(c) == c \in Digits \cup { "a", "b", "c", "d", "e", "f", "A", "B", "C", "D", "E", "F" }

\* url.unhex
unhex(c) ==
    IF c \in Digits THEN Code(c) - 48
    ELSE IF c \in { "a", "b", "c", "d", "e", "f" } THEN Code(c) - 97 + 10
    ELSE Code(c) - 65 + 10

\* url.shouldEscape for the modes encodePath, encodeQueryComponent and
\* encodeFragment.
shouldEscape(c, mode) ==
    IF c \in Letters \cup Digits THEN FALSE
    ELSE IF c \in { "-", "_", ".", "~" } THEN FALSE
    ELSE IF c \in { "$", "&", "+", ",", "/", ":", ";", "=", "?", "@" }
         THEN CASE mode = "encodePath" -> c = "?"
                [] mode = "encodeQueryComponent" -> TRUE
                [] mode = "encodeFragment" -> FALSE
    ELSE IF mode = "encodeFragment" /\ c \in { "!", "(", ")", "*" } THEN FALSE
    ELSE TRUE

\* The decoding loop of url.unescape, on a string whose escapes are well formed.
RECURSIVE unescapeBytes(_, _)
unescapeBytes(s, mode) ==
    IF Len(s) = 0 THEN << >>
    ELSE IF s[1] = "%"
         THEN << Chr(16 * unhex(s[2]) + unhex(s[3])) >> \o unescapeBytes(SliceFrom(s, 3), mode)
    ELSE IF s[1] = "+" /\ mode = "encodeQueryComponent"
         THEN << " " >> \o unescapeBytes(Tail(s), mode)
    ELSE << s[1] >> \o unescapeBytes(Tail(s), mode)

\* url.unescape: an error when a "%" is not followed by two hex digits.
unescape(s, mode) ==
    IF \E i \in 1..Len(s) :
          s[i] = "%" /\ ~(i + 2 <= Len(s) /\ ishex(s[i + 1]) /\ ishex(s[i + 2]))
    THEN [err |-> TRUE, val |-> << >>]
    ELSE [err |-> FALSE, val |-> unescapeBytes(s, mode)]

\* url.escape
RECURSIVE escape(_, _)
escape(s, mode) ==
    IF Len(s) = 0 THEN << >>
    ELSE (IF shouldEscape(s[1], mode)
          THEN IF s[1] = " " /\ mode = "encodeQueryComponent"
               THEN << "+" >>
               ELSE << "%", HexDigits[(Code(s[1]) \div 16) + 1],
                       HexDigits[(Code(s[1]) % 16) + 1] >>
          ELSE << s[1] >>) \o escape(Tail(s), mode)

\* url.QueryUnescape and url.QueryEscape
QueryUnescape(s) == unescape(s, "encodeQueryComponent")

QueryEscape(s) == escape(s, "encodeQueryComponent")

\* url.validEncoding
validEncoding(s, mode) ==
    \A i \in 1..Len(s) :
        \/ s[i] \in { "!", "$", "&", "'", "(", ")", "*", "+", ",", ";", "=", ":", "@",
                      "[", "]", "%" }
        \/ ~shouldEscape(s[i], mode)

\* url.stringContainsCTLByte
stringContainsCTLByte(s) == \E i \in 1..Len(s) : Code(s[i]) < 32 \/ Code(s[i]) = 127

\* url.getScheme restricted to its answer "is there a scheme": the position
\* of the ":" that ends a scheme, -1 when the string has no scheme, -2 for
\* "missing protocol scheme" (a leading ":").
RECURSIVE schemeEnd(_, _)
schemeEnd(s, i) ==
    IF i >= Len(s) THEN -1
    ELSE IF s[i + 1] \in Letters THEN schemeEnd(s, i + 1)
    ELSE IF s[i + 1] \in Digits \cup { "+", "-", "." }
         THEN IF i = 0 THEN -1 ELSE schemeEnd(s, i + 1)
    ELSE IF s[i + 1] = ":" THEN (IF i = 0 THEN -2 ELSE i)
    ELSE -1

\* The URL forms the model covers: no scheme, no authority.
OriginForm(rawurl) ==
    LET u == IF Index(rawurl, << "#" >>) < 0 THEN rawurl
             ELSE Slice(rawurl, 0, Index(rawurl, << "#" >>))
    IN  schemeEnd(u, 0) = -1 /\ ~HasPrefix(u, << "/", "/" >>)

\* url.Parse
Parse(rawurl) ==
    LET hash == Index(rawurl, << "#" >>)
        u    == IF hash < 0 THEN rawurl ELSE Slice(rawurl, 0, hash)
        frag == IF hash < 0 THEN << >> ELSE SliceFrom(rawurl, hash + 1)
        force == Len(u) > 0 /\ u[Len(u)] = "?" /\ Count(u, "?") = 1
        q    == Index(u, << "?" >>)
        rest == IF force THEN Slice(u, 0, Len(u) - 1)
                ELSE IF q < 0 THEN u ELSE Slice(u, 0, q)
        rawq == IF force \/ q < 0 THEN << >> ELSE SliceFrom(u, q + 1)
        colon == Index(rest, << ":" >>)
        slash == Index(rest, << "/" >>)
        path == unescape(rest, "encodePath")
        fr   == unescape(frag, "encodeFragment")
        fail == [err |-> TRUE, Path |-> << >>, RawPath |-> << >>, ForceQuery |-> FALSE,
                 RawQuery |-> << >>, Fragment |-> << >>]
    IN  IF ~OriginForm(rawurl) THEN CHOOSE x \in {} : TRUE
        ELSE IF stringContainsCTLByte(u) THEN fail
        ELSE IF ~HasPrefix(rest, << "/" >>) /\ colon >= 0 /\ (slash < 0 \/ colon < slash)
             THEN fail
        ELSE IF path.err \/ fr.err THEN fail
        ELSE [err |-> FALSE,
              Path |-> path.val,
              RawPath |-> IF rest = escape(path.val, "encodePath") THEN << >> ELSE rest,
              ForceQuery |-> force,
              RawQuery |-> rawq,
              Fragment |-> fr.val]

\* (*URL).EscapedPath
EscapedPath(u) ==
    IF /\ u.RawPath # << >>
       /\ validEncoding(u.RawPath, "encodePath")
       /\ ~unescape(u.RawPath, "encodePath").err
       /\ unescape(u.RawPath, "encodePath").val = u.Path
    THEN u.RawPath
    ELSE IF u.Path = << "*" >> THEN << "*" >>
    ELSE escape(u.Path, "encodePath")

\* (*URL).String for a URL without scheme, opaque part, user and host.
String(u) ==
    LET path  == EscapedPath(u)
        colon == Index(path, << ":" >>)
    IN  (IF colon > -1 /\ Index(Slice(path, 0, colon), << "/" >>) = -1
         THEN << ".", "/" >> ELSE << >>)
        \o path
        \o (IF u.ForceQuery \/ u.RawQuery # << >> THEN << "?" >> \o u.RawQuery ELSE << >>)
        \o (IF u.Fragment # << >>
            THEN << "#" >> \o escape(u.Fragment, "encodeFragment") ELSE << >>)

\* url.Values is modelled as the sequence of its (key, value) pairs in the
\* order they were added: per key, that is the order of the key's values.

\* url.parseQuery: the pairs parsed so far and whether an error was met.
\* Pairs are separated by "&" or ";"; an empty piece is skipped; a piece whose
\* key or value has a bad escape is skipped and makes the call fail.
RECURSIVE parseQuery(_)
parseQuery(query) ==
    IF Len(query) = 0 THEN [err |-> FALSE, pairs |-> << >>]
    ELSE LET i     == IndexAny(query, { "&", ";" })
             piece == IF i >= 0 THEN Slice(query, 0, i) ELSE query
             more  == parseQuery(IF i >= 0 THEN SliceFrom(query, i + 1) ELSE << >>)
             eq    == Index(piece, << "=" >>)
             key   == QueryUnescape(IF eq >= 0 THEN Slice(piece, 0, eq) ELSE piece)
             value == QueryUnescape(IF eq >= 0 THEN SliceFrom(piece, eq + 1) ELSE << >>)
         IN  IF Len(piece) = 0 THEN more
             ELSE IF key.err \/ value.err THEN [err |-> TRUE, pairs |-> more.pairs]
             ELSE [err |-> more.err, pairs |-> << << key.val, value.val >> >> \o more.pairs]

\* url.ParseQuery
ParseQuery(query) == parseQuery(query)

\* Values.Del
RECURSIVE Del(_, _)
Del(pairs, key) ==
    IF Len(pairs) = 0 THEN << >>
    ELSE (IF pairs[1][1] = key THEN << >> ELSE << pairs[1] >>) \o Del(Tail(pairs), key)

\* Values.Add
Add(pairs, key, value) == Append(pairs, << key, value >>)

\* sort.Strings on the set of keys.
RECURSIVE SortStrings(_)
SortStrings(keys) ==
    IF keys = {} THEN << >>
    ELSE LET least == CHOOSE k \in keys : \A other \in keys \ { k } : StrLess(k, other)
         IN  << least >> \o SortStrings(keys \ { least })

\* The "key=value" pieces of Values.Encode for one key, in the order of
\* the key's values.
RECURSIVE encodeKey(_, _)
encodeKey(pairs, key) ==
    IF Len(pairs) = 0 THEN << >>
    ELSE (IF pairs[1][1] = key
          THEN << QueryEscape(key) \o << "=" >> \o QueryEscape(pairs[1][2]) >>
          ELSE << >>) \o encodeKey(Tail(pairs), key)

RECURSIVE encodeKeys(_, _)
encodeKeys(pairs, keys) ==
    IF Len(keys) = 0 THEN << >>
    ELSE encodeKey(pairs, keys[1]) \o encodeKeys(pairs, Tail(keys))

\* An encoding that keeps the keys in the order they were added.
RECURSIVE EncodeUnsorted(_)
EncodeUnsorted(pairs) ==
    IF Len(pairs) = 0 THEN << >>
    ELSE QueryEscape(pairs[1][1]) \o << "=" >> \o QueryEscape(pairs[1][2])
         \o (IF Len(pairs) > 1 THEN << "&" >> ELSE << >>) \o EncodeUnsorted(Tail(pairs))

\* Values.Encode: keys sorted, pieces joined by "&".
Encode(pairs) ==
    Join(encodeKeys(pairs, SortStrings({ pairs[i][1] : i \in 1..Len(pairs) })), << "&" >>)

(***************************************************************************)
(* injectPlatform (src/main.go 95-127).                                    *)
(***************************************************************************)

\* The method token and the path marker the scanner looks for, the line
\* terminator, the token separator and the query key.
POST == << "P", "O", "S", "T" >>

ImagesCreate ==
    << "/", "i", "m", "a", "g", "e", "s", "/", "c", "r", "e", "a", "t", "e" >>

Newline == << "\n" >>

Space == << " " >>

PlatformKey == << "p", "l", "a", "t", "f", "o", "r", "m" >>

\* The platform string of the command line (os.Args[3]): linux/arm64
Platform == << "l", "i", "n", "u", "x", "/", "a", "r", "m", "6", "4" >>

\* An injection that adds the configured platform and keeps the old values.
AddPlatform(query, platform) == Add(query, PlatformKey, platform)

\* Lines 117-121: drop every platform value, then add the configured one.
SetPlatform(query, platform) == Add(Del(query, PlatformKey), PlatformKey, platform)

\* Lines 122-126: the target with its new query, between method and version.
Rebuild(method, u, query, version) ==
    Join(<< method, String([u EXCEPT !.RawQuery = Encode(query)]), version >>, Space)

\* Line 99: the request line did not split into three pieces.
TooFewParts(parts) == Len(parts) < 3

injectPlatform(buffer, platform) ==
    LET parts == SplitN(buffer, Space, 3)
        fail  == [err |-> TRUE, injected |-> << >>]
    IN  IF TooFewParts(parts) THEN fail
        ELSE LET u == Parse(parts[2])
             IN  IF u.err THEN fail
                 ELSE LET query == ParseQuery(u.RawQuery)
                      IN  IF query.err THEN fail
                          ELSE [err |-> FALSE,
                                injected |-> Rebuild(parts[1], u,
                                                     SetPlatform(query.pairs, platform),
                                                     parts[3])]

(***************************************************************************)
(* The scan of one window (src/main.go 180-217).                           *)
(***************************************************************************)

\* The capacity of the relay buffers.  The program allocates 4096 bytes
\* (src/main.go 38 and 142); the model runs the same code on a small buffer.
BufferSize == 64

\* Log entries: the level and the message.
LogSetTimeout == << "ERROR", "failed to set socket timeout" >>

LogReadDocker == << "ERROR", "error while reading from docker socket" >>

LogWriteClient == << "ERROR", "error while writing to client socket" >>

LogCloseClient == << "ERROR", "unable to close client connection" >>

LogClosedDockerClient == << "INFO", "closed docker -> client" >>

LogDial == << "ERROR", "unable to connect to Docker socket" >>

LogTooLong ==
    << "WARNING", "tried to inject request, but it's either invalid or too long" >>

LogInjected == << "INFO", "injected 'docker image create/pull' command" >>

LogNotInjected == << "WARNING", "unable to inject HTTP request, sending as is" >>

LogReadClient == << "ERROR", "error while reading from client socket" >>

LogWriteDocker == << "ERROR", "error while writing to docker socket" >>

LogCloseDocker == << "ERROR", "unable to close docker connection" >>

LogClosedClientDocker == << "INFO", "closed client -> docker" >>

\* A scan that examines a window holding either marker.
MatchesEither(readBuf) == Contains(readBuf, POST) \/ Contains(readBuf, ImagesCreate)

\* Line 182: the window is examined when it holds both markers.
Matches(readBuf) == Contains(readBuf, POST) /\ Contains(readBuf, ImagesCreate)

\* Lines 191-193 and 208-210: the n bytes at index are copied to the start.
MoveDown(buffer, index, n) ==
    [i \in 1..Len(buffer) |-> IF i <= n THEN buffer[index + i] ELSE buffer[i]]

\* A split that leaves the kept bytes where they are in the buffer.
SplitWithoutCopy(buffer, bytesRead, index) ==
    [readBuf    |-> Slice(buffer, 0, index),
     dirtyBytes |-> bytesRead - index,
     buffer     |-> buffer,
     log        |-> << >>]

\* A split that keeps the whole window, the bytes it sends included.
SplitKeepingAll(buffer, bytesRead, index) ==
    [readBuf    |-> Slice(buffer, 0, index),
     dirtyBytes |-> bytesRead,
     buffer     |-> buffer,
     log        |-> << >>]

\* Lines 185-193: the bytes before the method token are sent, the rest is kept.
SplitBefore(buffer, bytesRead, index) ==
    [readBuf    |-> Slice(buffer, 0, index),
     dirtyBytes |-> bytesRead - index,
     buffer     |-> MoveDown(buffer, index, bytesRead - index),
     log        |-> << >>]

\* A scan that keeps an unterminated line back until its terminator arrives.
KeepUnterminated(buffer, bytesRead) ==
    [readBuf    |-> << >>,
     dirtyBytes |-> bytesRead,
     buffer     |-> buffer,
     log        |-> << >>]

\* Lines 198-199: no line terminator in the window.
NoTerminator(buffer, bytesRead) ==
    [readBuf    |-> Slice(buffer, 0, bytesRead),
     dirtyBytes |-> 0,
     buffer     |-> buffer,
     log        |-> << LogTooLong >>]

\* Lines 203-210: the rewritten line is sent; the window from the line
\* terminator on is kept.
Injected(buffer, bytesRead, index, injectedBuf) ==
    [readBuf    |-> injectedBuf,
     dirtyBytes |-> bytesRead - index,
     buffer     |-> MoveDown(buffer, index, bytesRead - index),
     log        |-> << LogInjected >>]

\* A scan that, when the line cannot be rewritten, sends the line alone.
SendLineOnly(buffer, bytesRead) ==
    [readBuf    |-> Slice(buffer, 0, Index(Slice(buffer, 0, bytesRead), << "\n" >>)),
     dirtyBytes |-> 0,
     buffer     |-> buffer,
     log        |-> << LogNotInjected >>]

\* Lines 211-214: the line could not be rewritten; the window is sent as it is.
NotInjected(buffer, bytesRead) ==
    [readBuf    |-> Slice(buffer, 0, bytesRead),
     dirtyBytes |-> 0,
     buffer     |-> buffer,
     log        |-> << LogNotInjected >>]

\* Lines 194-215: the window starts with the method token.
AtStart(buffer, bytesRead, platform) ==
    LET readBuf == Slice(buffer, 0, bytesRead)
        index   == Index(readBuf, Newline)
        inj     == injectPlatform(Slice(readBuf, 0, index), platform)
    IN  IF index < 0 THEN NoTerminator(buffer, bytesRead)
        ELSE IF ~inj.err THEN Injected(buffer, bytesRead, index, inj.injected)
        ELSE NotInjected(buffer, bytesRead)

\* Line 183: the position of the method token, searched in the whole buffer.
MethodIndex(buffer) == Index(buffer, POST)

\* Lines 180-217: what is sent now (readBuf), how many bytes are kept for
\* the next cycle (dirtyBytes), the buffer afterwards, and what is logged.
Scan(buffer, bytesRead, platform) ==
    LET readBuf == Slice(buffer, 0, bytesRead)
        index   == MethodIndex(buffer)
        asItIs  == [readBuf |-> readBuf, dirtyBytes |-> 0, buffer |-> buffer, log |-> << >>]
    IN  IF Matches(readBuf)
        THEN IF index > 0 THEN SplitBefore(buffer, bytesRead, index)
             ELSE IF index = 0 THEN AtStart(buffer, bytesRead, platform)
             ELSE asItIs
        ELSE asItIs

(***************************************************************************)
(* The connections.                                                        *)
(***************************************************************************)

\* The most bytes the destinations take in one call of Write; 0 is no limit.
VARIABLE maxWrite

\* net.Conn.Write (lines 69 and 132): when the peer has gone, nothing is
\* written and the call fails.  Otherwise a socket of the net package writes
\* everything (maxWrite = 0); a destination that takes at most maxWrite bytes
\* per call returns the short count and no error.
Write(gone, p) ==
    IF gone THEN [n |-> 0, err |-> "EPIPE"]
    ELSE [n |-> IF maxWrite = 0 \/ Len(p) <= maxWrite THEN Len(p) ELSE maxWrite,
          err |-> "nil"]

\* sendAll (lines 129-139), and the same loop in forwardAll (lines 68-74):
\* Write is called with the whole buffer until toWrite is used up or a call
\* fails.  out is what the connection received.
RECURSIVE writeLoop(_, _, _, _)
writeLoop(buffer, gone, toWrite, out) ==
    IF toWrite > 0
    THEN LET w == Write(gone, buffer)
         IN  IF w.err # "nil"
             THEN [out |-> out \o Slice(buffer, 0, w.n), err |-> w.err]
             ELSE writeLoop(buffer, gone, toWrite - w.n, out \o Slice(buffer, 0, w.n))
    ELSE [out |-> out, err |-> "nil"]

sendAll(buffer, gone) == writeLoop(buffer, gone, Len(buffer), << >>)

\* net.Conn.Read into a buffer with room for `room` bytes, when `avail`
\* bytes have arrived from the peer: the byte count and the error.  A closed
\* connection fails at once; otherwise the call delivers what has arrived, as
\* far as there is room, or times out (the 50 ms deadline), or meets the end
\* of the stream, or fails.
ReadOutcomes(closed, gone, avail, room) ==
    IF closed THEN { [n |-> 0, err |-> "closed"] }
    ELSE { [n |-> IF avail < room THEN avail ELSE room, err |-> e] :
              e \in IF avail > 0 /\ room > 0 THEN { "nil", "timeout" } ELSE {} }
         \cup { [n |-> 0, err |-> "timeout"], [n |-> 0, err |-> "reset"] }
         \cup (IF room = 0 THEN { [n |-> 0, err |-> "nil"] } ELSE {})
         \cup (IF gone THEN { [n |-> 0, err |-> "EOF"] } ELSE {})

\* A relay loop that ends on every error but the write error.
LoopEndsOnWriteError(rErr, wErr) == wErr # "nil"

\* Lines 75-77 and 222-224: the loop ends on a read or a write error.
LoopEnds(rErr, wErr) == rErr # "nil" \/ wErr # "nil"

\* A loop that starts over on every timeout, whatever it holds.
RetryOnTimeout(err, bytesRead) == err = "timeout"

\* Lines 57-59 and 171-173: a timeout with no byte to handle starts the loop over.
Retry(err, bytesRead) == err = "timeout" /\ bytesRead = 0

\* A loop that keeps the error of a read that timed out.
KeepTimeout(err, bytesRead) == err

\* Lines 57-63 and 171-177: a timeout that delivered bytes is no error.
ClearTimeout(err, bytesRead) == IF err = "timeout" /\ bytesRead > 0 THEN "nil" ELSE err

\* copy into buffer[dirtyBytes:] (lines 165-166)
ReadInto(buffer, dirtyBytes, data) ==
    [i \in 1..Len(buffer) |->
        IF i > dirtyBytes /\ i <= dirtyBytes + Len(data) THEN data[i - dirtyBytes]
        ELSE buffer[i]]

(***************************************************************************)
(* The byte streams the client sends.                                      *)
(***************************************************************************)

\* GET /info HTTP/1.1\r\n: a request that has neither the method token nor the path marker
Plain ==
    << "G", "E", "T", " ", "/", "i", "n", "f", "o", " ", "H", "T", "T", "P", "/", "1", ".",
       "1", "\r", "\n" >>

\* POST /build HTTP/1.1\r\n: the method token without the path marker
PostOnly ==
    << "P", "O", "S", "T", " ", "/", "b", "u", "i", "l", "d", " ", "H", "T", "T", "P", "/",
       "1", ".", "1", "\r", "\n" >>

\* GET /images/create HTTP/1.1\r\n: the path marker without the method token
MarkerOnly ==
    << "G", "E", "T", " ", "/", "i", "m", "a", "g", "e", "s", "/", "c", "r", "e", "a", "t",
       "e", " ", "H", "T", "T", "P", "/", "1", ".", "1", "\r", "\n" >>

\* POST /v1.40/images/create?fromImage=x HTTP/1.1\r\n: the request line of the specification's example
SpecExample ==
    << "P", "O", "S", "T", " ", "/", "v", "1", ".", "4", "0", "/", "i", "m", "a", "g", "e",
       "s", "/", "c", "r", "e", "a", "t", "e", "?", "f", "r", "o", "m", "I", "m", "a", "g",
       "e", "=", "x", " ", "H", "T", "T", "P", "/", "1", ".", "1", "\r", "\n" >>

\* POST /images/create?tag=1&fromImage=a%2Fb:1 HTTP/1.1\r\nHost: d\r\n\r\n: two parameters out of key order, an escaped value, and a header after the line
TwoKeys ==
    << "P", "O", "S", "T", " ", "/", "i", "m", "a", "g", "e", "s", "/", "c", "r", "e", "a",
       "t", "e", "?", "t", "a", "g", "=", "1", "&", "f", "r", "o", "m", "I", "m", "a", "g",
       "e", "=", "a", "%", "2", "F", "b", ":", "1", " ", "H", "T", "T", "P", "/", "1", ".",
       "1", "\r", "\n", "H", "o", "s", "t", ":", " ", "d", "\r", "\n", "\r", "\n" >>

\* POST /images/create?platform=foo&fromImage=x HTTP/1.1\r\n: a platform parameter is already there
HasPlatform ==
    << "P", "O", "S", "T", " ", "/", "i", "m", "a", "g", "e", "s", "/", "c", "r", "e", "a",
       "t", "e", "?", "p", "l", "a", "t", "f", "o", "r", "m", "=", "f", "o", "o", "&", "f",
       "r", "o", "m", "I", "m", "a", "g", "e", "=", "x", " ", "H", "T", "T", "P", "/", "1",
       ".", "1", "\r", "\n" >>

\* POST /images/create?platform=foo&tag=1&platform=bar HTTP/1.1\r\n: two platform parameters are already there
DupPlatform ==
    << "P", "O", "S", "T", " ", "/", "i", "m", "a", "g", "e", "s", "/", "c", "r", "e", "a",
       "t", "e", "?", "p", "l", "a", "t", "f", "o", "r", "m", "=", "f", "o", "o", "&", "t",
       "a", "g", "=", "1", "&", "p", "l", "a", "t", "f", "o", "r", "m", "=", "b", "a", "r",
       " ", "H", "T", "T", "P", "/", "1", ".", "1", "\r", "\n" >>

\* POST /images/create\r\n: a first line of two tokens
TwoTokens ==
    << "P", "O", "S", "T", " ", "/", "i", "m", "a", "g", "e", "s", "/", "c", "r", "e", "a",
       "t", "e", "\r", "\n" >>

\* POST /images/create?a=b HTTP/1.1 x\r\n: a first line of four tokens
FourTokens ==
    << "P", "O", "S", "T", " ", "/", "i", "m", "a", "g", "e", "s", "/", "c", "r", "e", "a",
       "t", "e", "?", "a", "=", "b", " ", "H", "T", "T", "P", "/", "1", ".", "1", " ", "x",
       "\r", "\n" >>

\* POST /images/create?a=%zz HTTP/1.1\r\n: a query string with a malformed escape
BadQuery ==
    << "P", "O", "S", "T", " ", "/", "i", "m", "a", "g", "e", "s", "/", "c", "r", "e", "a",
       "t", "e", "?", "a", "=", "%", "z", "z", " ", "H", "T", "T", "P", "/", "1", ".", "1",
       "\r", "\n" >>

\* POST /images/create%zz HTTP/1.1\r\n: a path with a malformed escape
BadPath ==
    << "P", "O", "S", "T", " ", "/", "i", "m", "a", "g", "e", "s", "/", "c", "r", "e", "a",
       "t", "e", "%", "z", "z", " ", "H", "T", "T", "P", "/", "1", ".", "1", "\r", "\n" >>

\* PUT /x HTTP/1.1\r\nX: POST /images/create now\r\n: a header line that mentions the method token and the path marker
HeaderMention ==
    << "P", "U", "T", " ", "/", "x", " ", "H", "T", "T", "P", "/", "1", ".", "1", "\r",
       "\n", "X", ":", " ", "P", "O", "S", "T", " ", "/", "i", "m", "a", "g", "e", "s",
       "/", "c", "r", "e", "a", "t", "e", " ", "n", "o", "w", "\r", "\n" >>

\* POST /images/create?aaa...: a request line longer than the buffer, never
\* terminated.
LongLine == POST \o Space \o ImagesCreate \o << "?" >> \o [i \in 1..BufferSize |-> "a"]

\* xPOST /images/create?aaa...: the same line behind one byte of other traffic
PrefixedLong == << "x" >> \o LongLine

Streams ==
    { Plain, PostOnly, MarkerOnly, SpecExample, TwoKeys, HasPlatform, DupPlatform,
      TwoTokens, FourTokens, BadQuery, BadPath, HeaderMention, LongLine, PrefixedLong }

\* What the Docker daemon answers: OK
Response == << "O", "K" >>

(***************************************************************************)
(* One session: handleConnection (src/main.go 141-239) and the goroutine   *)
(* forwardAll (src/main.go 37-93) it starts.                               *)
(***************************************************************************)

VARIABLES
    stream,         \* the bytes the client sends on its connection
    cut,            \* the client sends them in two pieces: stream[:cut], stream[cut:]
    pos,            \* how many of them handleConnection has read
    clientGone,     \* the client has closed its end
    response,       \* the bytes the Docker daemon sends
    rpos,           \* how many of them forwardAll has read
    dockerGone,     \* the Docker daemon has closed its end
    connCloses,     \* calls of Close on conn, the accepted client connection
    dockerCloses,   \* calls of Close on dockerConn
    sent,           \* the bytes written to dockerConn
    toClient,       \* the bytes written to conn
    logs,           \* the log entries written so far
    pcM,            \* main: guard, listen, accept, exit
    found,          \* what os.Stat finds at the proxy socket path at startup
    removed,        \* os.Remove has removed the entry at the proxy socket path
    exitCode,       \* the status the process exited with; -1 while it runs
    accepted,       \* the connections ln.Accept has returned
    acceptErr,      \* the error of the last call of ln.Accept
    pcH,            \* handleConnection: dial, deadline, read, send, close, done
    buffer,         \* handleConnection's buffer
    dirtyBytes,
    bytesRead,
    readBuf,
    readErr,
    rawErr,         \* the error conn.Read returned, before line 175 clears it
    writeErr,
    window,         \* buffer[:bytesRead] as the last scan found it (line 180)
    cycleLog,       \* what the last scan logged
    pcF,            \* forwardAll: idle, deadline, read, write, close, done
    fReadBuf,       \* forwardAll's readBuf
    fReadErr,
    fRawErr,        \* the error srcConn.Read returned, before line 61 clears it
    fWriteErr

hcVars ==
    << pcH, buffer, dirtyBytes, bytesRead, readBuf, readErr, rawErr, writeErr, window,
       cycleLog >>

faVars == << pcF, fReadBuf, fReadErr, fRawErr, fWriteErr >>

mainVars == << pcM, found, removed, exitCode, accepted, acceptErr >>

clientVars == << stream, cut, pos, clientGone >>

\* The bytes of the client that have arrived and are not read yet.
Arrived == IF pos < cut THEN cut - pos ELSE Len(stream) - pos

dockerVars == << response, rpos, dockerGone >>

vars ==
    << stream, cut, pos, clientGone, response, rpos, dockerGone, connCloses, dockerCloses,
       sent, toClient, logs, hcVars, faVars, mainVars, maxWrite >>

\* The state after construction, for a client stream drawn from `streams`.
InitOf(streams) ==
    /\ stream \in streams
    /\ cut \in 0..Len(stream)
    /\ pos = 0
    /\ clientGone = FALSE
    /\ response = Response
    /\ rpos = 0
    /\ dockerGone = FALSE
    /\ connCloses = 0
    /\ dockerCloses = 0
    /\ sent = << >>
    /\ toClient = << >>
    /\ logs = {}
    /\ pcH = "dial"
    /\ buffer = [i \in 1..BufferSize |-> NUL]
    /\ dirtyBytes = 0
    /\ bytesRead = 0
    /\ readBuf = << >>
    /\ readErr = "nil"
    /\ rawErr = "nil"
    /\ writeErr = "nil"
    /\ window = << >>
    /\ cycleLog = << >>
    /\ pcF = "idle"
    /\ fReadBuf = << >>
    /\ fReadErr = "nil"
    /\ fRawErr = "nil"
    /\ fWriteErr = "nil"

\* Lines 305-315: main found the proxy socket path free, listens, and has
\* accepted the connection it hands to handleConnection.
Serving ==
    /\ pcM = "accept"
    /\ found = "absent"
    /\ removed = FALSE
    /\ exitCode = -1
    /\ accepted = 1
    /\ acceptErr = "nil"

\* The streams the whole session is run on.
SessionStreams == { Plain, PostOnly, MarkerOnly, SpecExample }

Init == InitOf(SessionStreams) /\ Serving /\ maxWrite = 0

\* The entries of a sequence of log entries.
Entries(log) == { log[i] : i \in 1..Len(log) }

\* Lines 143-156: the dial succeeds and forwardAll is started ...
DialOk ==
    /\ accepted > 0
    /\ pcH = "dial"
    /\ pcH' = "deadline"
    /\ pcF' = "deadline"
    /\ UNCHANGED << mainVars, maxWrite,
                    clientVars, dockerVars, connCloses, dockerCloses, sent, toClient, logs,
                    buffer, dirtyBytes, bytesRead, readBuf, readErr, rawErr, writeErr, window,
                    cycleLog, fReadBuf, fReadErr, fRawErr, fWriteErr >>

\* ... or it fails: the error is logged and handleConnection returns.
DialFails ==
    /\ accepted > 0
    /\ pcH = "dial"
    /\ pcH' = "done"
    /\ logs' = logs \cup { LogDial }
    /\ UNCHANGED << mainVars, maxWrite,
                    clientVars, dockerVars, connCloses, dockerCloses, sent, toClient,
                    buffer, dirtyBytes, bytesRead, readBuf, readErr, rawErr, writeErr, window,
                    cycleLog, faVars >>

\* Lines 160-164: conn.SetReadDeadline fails on a closed connection.
hcSetReadDeadline ==
    /\ pcH = "deadline"
    /\ IF connCloses > 0
       THEN /\ logs' = logs \cup { LogSetTimeout }
            /\ pcH' = "close"
       ELSE /\ logs' = logs
            /\ pcH' = "read"
    /\ UNCHANGED << mainVars, maxWrite,
                    clientVars, dockerVars, connCloses, dockerCloses, sent, toClient,
                    buffer, dirtyBytes, bytesRead, readBuf, readErr, rawErr, writeErr, window,
                    cycleLog, faVars >>

\* Lines 165-217: one read and the scan of the window it completes.
hcRead ==
    /\ pcH = "read"
    /\ \E r \in ReadOutcomes(connCloses > 0, clientGone /\ pos = Len(stream), Arrived,
                             BufferSize - dirtyBytes) :
          /\ pos' = pos + r.n
          /\ bytesRead' = r.n + dirtyBytes
          /\ readErr' = ClearTimeout(r.err, r.n + dirtyBytes)
          /\ rawErr' = r.err
          /\ IF Retry(r.err, r.n + dirtyBytes)
             THEN /\ pcH' = "deadline"
                  /\ dirtyBytes' = 0
                  /\ UNCHANGED << buffer, readBuf, window, cycleLog, logs >>
             ELSE \E filled \in { ReadInto(buffer, dirtyBytes, Slice(stream, pos, pos + r.n)) } :
                  \E scan \in { Scan(filled, r.n + dirtyBytes, Platform) } :
                      /\ pcH' = "send"
                      /\ window' = Slice(filled, 0, r.n + dirtyBytes)
                      /\ buffer' = scan.buffer
                      /\ dirtyBytes' = scan.dirtyBytes
                      /\ readBuf' = scan.readBuf
                      /\ cycleLog' = scan.log
                      /\ logs' = logs \cup Entries(scan.log)
    /\ UNCHANGED << mainVars, maxWrite,
                    stream, cut, clientGone, dockerVars, connCloses, dockerCloses, sent,
                    toClient, writeErr, faVars >>

\* Lines 220-224: sendAll, then the loop ends on a read or a write error.
hcSend ==
    /\ pcH = "send"
    /\ LET w == sendAll(readBuf, dockerGone)
       IN  /\ sent' = sent \o w.out
           /\ writeErr' = w.err
           /\ pcH' = IF LoopEnds(readErr, w.err) THEN "close" ELSE "deadline"
    /\ UNCHANGED << mainVars, maxWrite,
                    clientVars, dockerVars, connCloses, dockerCloses, toClient, logs,
                    buffer, dirtyBytes, bytesRead, readBuf, readErr, rawErr, window, cycleLog,
                    faVars >>

\* Lines 227-232: what handleConnection logs after its loop.
hcExitLog(rErr, wErr) ==
    (IF rErr # "nil" /\ rErr # "EOF" THEN { LogReadClient } ELSE {})
    \cup (IF wErr # "nil" THEN { LogWriteDocker } ELSE {})

\* A relay that closes both connections of the session when it returns.
hcCloseBoth ==
    /\ pcH = "close"
    /\ pcH' = "done"
    /\ dockerCloses' = dockerCloses + 1
    /\ connCloses' = connCloses + 1
    /\ logs' = logs \cup hcExitLog(readErr, writeErr)
                    \cup { IF dockerCloses > 0 THEN LogCloseDocker ELSE LogClosedClientDocker }
    /\ UNCHANGED << mainVars, maxWrite,
                    clientVars, dockerVars, sent, toClient, buffer, dirtyBytes,
                    bytesRead, readBuf, readErr, rawErr, writeErr, window, cycleLog, faVars >>

\* Lines 227-238: the errors are logged and dockerConn is closed.
hcClose ==
    /\ pcH = "close"
    /\ pcH' = "done"
    /\ dockerCloses' = dockerCloses + 1
    /\ logs' = logs \cup hcExitLog(readErr, writeErr)
                    \cup { IF dockerCloses > 0 THEN LogCloseDocker ELSE LogClosedClientDocker }
    /\ UNCHANGED << mainVars, maxWrite,
                    clientVars, dockerVars, connCloses, sent, toClient, buffer, dirtyBytes,
                    bytesRead, readBuf, readErr, rawErr, writeErr, window, cycleLog, faVars >>

\* Lines 46-50: srcConn.SetReadDeadline fails on a closed connection.
faSetReadDeadline ==
    /\ pcF = "deadline"
    /\ IF dockerCloses > 0
       THEN /\ logs' = logs \cup { LogSetTimeout }
            /\ pcF' = "close"
       ELSE /\ logs' = logs
            /\ pcF' = "read"
    /\ UNCHANGED << mainVars, maxWrite,
                    clientVars, dockerVars, connCloses, dockerCloses, sent, toClient,
                    hcVars, fReadBuf, fReadErr, fRawErr, fWriteErr >>

\* Lines 52-64: one read from the Docker socket.
faRead ==
    /\ pcF = "read"
    /\ \E r \in ReadOutcomes(dockerCloses > 0, dockerGone /\ rpos = Len(response),
                             Len(response) - rpos, BufferSize) :
          /\ rpos' = rpos + r.n
          /\ fReadBuf' = Slice(response, rpos, rpos + r.n)
          /\ fReadErr' = ClearTimeout(r.err, r.n)
          /\ fRawErr' = r.err
          /\ pcF' = IF Retry(r.err, r.n) THEN "deadline" ELSE "write"
    /\ UNCHANGED << mainVars, maxWrite,
                    clientVars, response, dockerGone, connCloses, dockerCloses, sent,
                    toClient, logs, hcVars, fWriteErr >>

\* Lines 68-77: the write loop, then the loop ends on a read or a write error.
faWrite ==
    /\ pcF = "write"
    /\ LET w == writeLoop(fReadBuf, clientGone, Len(fReadBuf), << >>)
           e == IF Len(fReadBuf) > 0 THEN w.err ELSE fWriteErr
       IN  /\ toClient' = toClient \o w.out
           /\ fWriteErr' = e
           /\ pcF' = IF LoopEnds(fReadErr, e) THEN "close" ELSE "deadline"
    /\ UNCHANGED << mainVars, maxWrite,
                    clientVars, dockerVars, connCloses, dockerCloses, sent, logs, hcVars,
                    fReadBuf, fReadErr, fRawErr >>

\* Lines 80-87: what forwardAll logs after its loop.  A read that failed
\* because the connection was closed is not logged.
faExitLog(rErr, wErr) ==
    (IF rErr # "nil" /\ rErr # "EOF" /\ rErr # "closed" THEN { LogReadDocker } ELSE {})
    \cup (IF wErr # "nil" THEN { LogWriteClient } ELSE {})

\* Lines 80-92: the errors are logged and the client connection is closed.
faClose ==
    /\ pcF = "close"
    /\ pcF' = "done"
    /\ connCloses' = connCloses + 1
    /\ logs' = logs \cup faExitLog(fReadErr, fWriteErr)
                    \cup { IF connCloses > 0 THEN LogCloseClient ELSE LogClosedDockerClient }
    /\ UNCHANGED << mainVars, maxWrite,
                    clientVars, dockerVars, dockerCloses, sent, toClient, hcVars,
                    fReadBuf, fReadErr, fRawErr, fWriteErr >>

\* The client closes its end once it has sent its bytes and they were read.
ClientCloses ==
    /\ pcH \notin { "dial", "done" }
    /\ ~clientGone
    /\ pos = Len(stream)
    /\ clientGone' = TRUE
    /\ UNCHANGED << mainVars, maxWrite,
                    stream, cut, pos, dockerVars, connCloses, dockerCloses, sent,
                    toClient, logs, hcVars, faVars >>

\* The Docker daemon closes its end; what it sent before can still be read.
DockerCloses ==
    /\ pcH \notin { "dial", "done" }
    /\ ~dockerGone
    /\ dockerGone' = TRUE
    /\ UNCHANGED << mainVars, maxWrite,
                    clientVars, response, rpos, connCloses, dockerCloses, sent, toClient,
                    logs, hcVars, faVars >>

(***************************************************************************)
(* main (src/main.go 269-318), from the check of the proxy socket path on.  *)
(***************************************************************************)

\* What os.Stat can find at the proxy socket path (line 243): nothing
\* (ENOENT), a socket, a regular file, a directory, or an error other than
\* ENOENT, which leaves unknown what is there.
Found == { "absent", "socket", "file", "dir", "unreadable" }

ErrStat == "unable to stat proxy socket"

ErrRemove == "proxy socket exists and it could not be removed"

ErrNotSocket == "proxy socket exists and is not a socket"

LogRemovedOld == << "INFO", "removed old proxy socket" >>

LogListenFailed == << "CRITICAL", "unable to listen to Unix socket" >>

LogListening == << "NOTICE", "listening on proxy socket" >>

LogAccept == << "ERROR", "unable to accept connection" >>

LogNewConnection == << "INFO", "new connection to proxy socket" >>

\* A guard that removes whatever it finds at the path.
removeWhateverExists(stat, removeErr) ==
    IF stat = "unreadable" THEN [err |-> ErrStat, removes |-> FALSE, log |-> << >>]
    ELSE IF stat = "absent" THEN [err |-> "nil", removes |-> FALSE, log |-> << >>]
    ELSE IF removeErr # "nil" THEN [err |-> ErrRemove, removes |-> FALSE, log |-> << >>]
    ELSE [err |-> "nil", removes |-> TRUE, log |-> << LogRemovedOld >>]

\* ensureSocketDoesNotExist (lines 241-267): the error it returns, whether it
\* has removed the entry at the path, and what it logs.  removeErr is the
\* result os.Remove gives when it is called.  On Linux stat.Sys() is a
\* *syscall.Stat_t (line 248), so lines 260-264 are never reached.
ensureSocketDoesNotExist(stat, removeErr) ==
    IF stat = "unreadable" THEN [err |-> ErrStat, removes |-> FALSE, log |-> << >>]
    ELSE IF stat = "absent" THEN [err |-> "nil", removes |-> FALSE, log |-> << >>]
    ELSE IF stat = "socket"
         THEN IF removeErr # "nil"
              THEN [err |-> ErrRemove, removes |-> FALSE, log |-> << >>]
              ELSE [err |-> "nil", removes |-> TRUE, log |-> << LogRemovedOld >>]
    ELSE [err |-> ErrNotSocket, removes |-> FALSE, log |-> << >>]

\* Lines 301-303: the check of the path; an error is fatal (log.Fatal logs
\* at CRITICAL and exits with status 1).
mainGuard ==
    /\ pcM = "guard"
    /\ \E removeErr \in { "nil", "EPERM" } :
          LET g == ensureSocketDoesNotExist(found, removeErr)
          IN  /\ removed' = g.removes
              /\ logs' = logs \cup Entries(g.log)
                              \cup (IF g.err # "nil" THEN { << "CRITICAL", g.err >> } ELSE {})
              /\ pcM' = IF g.err # "nil" THEN "exit" ELSE "listen"
              /\ exitCode' = IF g.err # "nil" THEN 1 ELSE exitCode
    /\ UNCHANGED << found, accepted, acceptErr, maxWrite, clientVars, dockerVars,
                    connCloses, dockerCloses, sent, toClient, hcVars, faVars >>

\* Lines 305-309: net.Listen fails when the path is taken, and can fail for
\* other reasons; a failure is fatal.
mainListen ==
    /\ pcM = "listen"
    /\ \E err \in IF found # "absent" /\ ~removed THEN { "EADDRINUSE" }
                   ELSE { "nil", "EACCES" } :
          /\ logs' = logs \cup { IF err # "nil" THEN LogListenFailed ELSE LogListening }
          /\ pcM' = IF err # "nil" THEN "exit" ELSE "accept"
          /\ exitCode' = IF err # "nil" THEN 1 ELSE exitCode
    /\ UNCHANGED << found, removed, accepted, acceptErr, maxWrite, clientVars, dockerVars,
                    connCloses, dockerCloses, sent, toClient, hcVars, faVars >>

\* The connections main accepts before the model stops counting.
MaxAccepted == 2

\* Lines 311-315: ln.Accept returns a connection; handleConnection is
\* started for it and the loop goes on.
mainAccept ==
    /\ pcM = "accept"
    /\ acceptErr # "closed"
    /\ accepted < MaxAccepted
    /\ accepted' = accepted + 1
    /\ acceptErr' = "nil"
    /\ logs' = logs \cup { LogNewConnection }
    /\ UNCHANGED << pcM, found, removed, exitCode, maxWrite, clientVars, dockerVars,
                    connCloses, dockerCloses, sent, toClient, hcVars, faVars >>

\* Lines 311-312: ln.Accept fails, for a while (EMFILE) or for good (the
\* listener is closed); the error is logged and the loop goes on.
mainAcceptFails ==
    /\ pcM = "accept"
    /\ \E err \in IF acceptErr = "closed" THEN { "closed" } ELSE { "EMFILE", "closed" } :
          acceptErr' = err
    /\ logs' = logs \cup { LogAccept }
    /\ UNCHANGED << pcM, found, removed, exitCode, accepted, maxWrite, clientVars,
                    dockerVars, connCloses, dockerCloses, sent, toClient, hcVars, faVars >>

Next ==
    \/ DialOk
    \/ DialFails
    \/ hcSetReadDeadline
    \/ hcRead
    \/ hcSend
    \/ hcClose
    \/ faSetReadDeadline
    \/ faRead
    \/ faWrite
    \/ faClose
    \/ ClientCloses
    \/ DockerCloses

\* The whole session: handleConnection, forwardAll and the two peers.
Spec == Init /\ [][Next]_vars

\* The client -> docker direction on every stream: handleConnection and the
\* two peers, in the schedules in which forwardAll has not run yet.
RelayInit == InitOf(Streams) /\ Serving /\ maxWrite = 0

RelayNext ==
    \/ DialOk
    \/ DialFails
    \/ hcSetReadDeadline
    \/ hcRead
    \/ hcSend
    \/ hcClose
    \/ ClientCloses
    \/ DockerCloses

RelaySpec == RelayInit /\ [][RelayNext]_vars

\* The session under the Go scheduler: a goroutine that can take a step
\* eventually takes it.  The peers are free to stay silent and to stay open.
LiveInit ==
    /\ InitOf({ Plain, SpecExample, TwoKeys, HeaderMention })
    /\ cut \in { 2, Len(stream) }
    /\ Serving
    /\ maxWrite = 0

\* hcRead is enabled exactly when pcH = "read" and every hcRead step leaves
\* "read", so weak fairness of hcRead is the statement that the handler is
\* never at "read" for ever; it is written in that form.
Fairness ==
    /\ WF_vars(hcSetReadDeadline)
    /\ []<>(pcH # "read")
    /\ WF_vars(hcSend)
    /\ WF_vars(hcClose)
    /\ WF_vars(faSetReadDeadline)
    /\ WF_vars(faRead)
    /\ WF_vars(faWrite)
    /\ WF_vars(faClose)

FairSpec == LiveInit /\ [][Next]_vars /\ Fairness

\* The process from the check of the proxy socket path on, with the session
\* of the first connection it accepts.
MainInit ==
    /\ InitOf({ Plain })
    /\ cut = Len(stream)
    /\ maxWrite = 0
    /\ pcM = "guard"
    /\ found \in Found
    /\ removed = FALSE
    /\ exitCode = -1
    /\ accepted = 0
    /\ acceptErr = "nil"

MainNext ==
    \/ mainGuard
    \/ mainListen
    \/ mainAccept
    \/ mainAcceptFails
    \/ DialOk
    \/ DialFails
    \/ hcSetReadDeadline
    \/ hcRead
    \/ hcSend
    \/ hcClose
    \/ faSetReadDeadline
    \/ faRead
    \/ faWrite
    \/ faClose
    \/ ClientCloses
    \/ DockerCloses

MainSpec == MainInit /\ [][MainNext]_vars

\* The most bytes per call of a destination that takes its writes in parts.
MaxWrite == 3

\* The session with destinations whose Write takes at most maxWrite bytes
\* per call and returns the short count without an error.
ShortWriteInit == InitOf({ Plain }) /\ Serving /\ maxWrite \in 1..MaxWrite

ShortWriteSpec == ShortWriteInit /\ [][Next]_vars

(***************************************************************************)
(* Properties.                                                             *)
(***************************************************************************)

IsPrefix(a, b) == Len(a) <= Len(b) /\ SubSeq(b, 1, Len(a)) = a

\* The bytes read from the client, and from the Docker daemon, so far.
Received == Slice(stream, 0, pos)

ReceivedFromDocker == Slice(response, 0, rpos)

\* The first line of a window that has a line terminator, without the terminator.
FirstLine(w) == Slice(w, 0, Index(w, Newline))

\* All the space-delimited tokens of a line.
Tokens(line) == SplitN(line, Space, Len(line) + 1)

\* The raw path and the raw query string of a request target.
NoFragment(t) == IF Index(t, << "#" >>) < 0 THEN t ELSE Slice(t, 0, Index(t, << "#" >>))

RawPathOf(t) ==
    IF Index(NoFragment(t), << "?" >>) < 0 THEN NoFragment(t)
    ELSE Slice(NoFragment(t), 0, Index(NoFragment(t), << "?" >>))

RawQueryOf(t) ==
    IF Index(NoFragment(t), << "?" >>) < 0 THEN << >>
    ELSE SliceFrom(NoFragment(t), Index(NoFragment(t), << "?" >>) + 1)

\* The values a sequence of (key, value) pairs gives a key, in order.
RECURSIVE ValuesOf(_, _)
ValuesOf(pairs, key) ==
    IF Len(pairs) = 0 THEN << >>
    ELSE (IF pairs[1][1] = key THEN << pairs[1][2] >> ELSE << >>)
         \o ValuesOf(Tail(pairs), key)

KeysOf(pairs) == { pairs[i][1] : i \in 1..Len(pairs) }

\* The "key=value" pieces of an encoded query string.
Pieces(q) == IF Len(q) = 0 THEN << >> ELSE SplitN(q, << "&" >>, Len(q) + 1)

\* linux%2Farm64: the configured platform, URL-encoded.
EncodedPlatform == << "l", "i", "n", "u", "x", "%", "2", "F", "a", "r", "m", "6", "4" >>

\* POST /v1.40/images/create?fromImage=x&platform=linux%2Farm64 HTTP/1.1\r
ExpectedExample ==
    << "P", "O", "S", "T", " ", "/", "v", "1", ".", "4", "0", "/", "i", "m", "a", "g", "e",
       "s", "/", "c", "r", "e", "a", "t", "e", "?", "f", "r", "o", "m", "I", "m", "a", "g",
       "e", "=", "x", "&", "p", "l", "a", "t", "f", "o", "r", "m", "=", "l", "i", "n", "u",
       "x", "%", "2", "F", "a", "r", "m", "6", "4", " ", "H", "T", "T", "P", "/", "1", ".",
       "1", "\r" >>

\* Everything the client sent was read and nothing is held back or in
\* flight: handleConnection is at the top of its loop with no leftover.
Quiescent ==
    /\ pcH = "deadline"
    /\ pos = Len(stream)
    /\ dirtyBytes = 0
    /\ writeErr = "nil"

\* ---- C1 ----
\* C1: when the client's bytes do not hold the method token POST together
\* with the path marker /images/create, the bytes written to the Docker
\* connection are the bytes read from the client, in order and unmodified:
\* always a prefix of them, all of them but the chunk in flight between a
\* read and its send, and all of them whenever no write failed.  The
\* docker -> client relay forwards what it read in the same way, whatever
\* the bytes are.
CleanStream == ~(Contains(stream, POST) /\ Contains(stream, ImagesCreate))

C1_Passthrough ==
    /\ CleanStream =>
          /\ IsPrefix(sent, Received)
          /\ pcH = "send" => sent \o readBuf = Received
          /\ (pcH # "send" /\ writeErr = "nil") => sent = Received
    /\ IsPrefix(toClient, ReceivedFromDocker)
    /\ pcF = "write" => toClient \o fReadBuf = ReceivedFromDocker
    /\ (pcF # "write" /\ fWriteErr = "nil") => toClient = ReceivedFromDocker

\* C1 witness: a stream with the method token but not the path marker came
\* in two reads and all of it reached the Docker connection, and the answer
\* reached the client.
C1_Witness ==
    /\ stream = PostOnly
    /\ cut \notin { 0, Len(stream) }
    /\ pos = Len(stream)
    /\ pcH = "deadline"
    /\ sent = stream
    /\ toClient = response

\* ---- C2 ----
\* A window that starts with a request line of exactly three tokens,
\* "POST <target with /images/create> <version>", whose target and query
\* string parse, followed by a line terminator.
WellFormed(w) ==
    /\ HasPrefix(w, POST)
    /\ Index(w, Newline) >= 0
    /\ Len(Tokens(FirstLine(w))) = 3
    /\ Tokens(FirstLine(w))[1] = POST
    /\ Contains(Tokens(FirstLine(w))[2], ImagesCreate)
    /\ ~Parse(Tokens(FirstLine(w))[2]).err
    /\ ~ParseQuery(Parse(Tokens(FirstLine(w))[2]).RawQuery).err

\* in is the request line's three tokens, out the forwarded line.
RewrittenFrom(in, out) ==
    LET o  == SplitN(out, Space, 3)
        np == ParseQuery(RawQueryOf(o[2])).pairs
        op == ParseQuery(RawQueryOf(in[2])).pairs
    IN  /\ Len(o) = 3
        /\ o[1] = in[1]
        /\ o[3] = in[3]
        /\ unescape(RawPathOf(o[2]), "encodePath") = unescape(RawPathOf(in[2]), "encodePath")
        /\ validEncoding(RawPathOf(in[2]), "encodePath") => RawPathOf(o[2]) = RawPathOf(in[2])
        /\ \A k \in (KeysOf(op) \cup KeysOf(np)) \ { PlatformKey } :
              ValuesOf(np, k) = ValuesOf(op, k)
        /\ ValuesOf(np, PlatformKey) = << Platform >>
        /\ Cardinality({ i \in 1..Len(Pieces(RawQueryOf(o[2]))) :
              Pieces(RawQueryOf(o[2]))[i] = PlatformKey \o << "=" >> \o EncodedPlatform }) = 1
        /\ \A i \in 1..Len(np) : \A j \in i..Len(np) : ~StrLess(np[j][1], np[i][1])

\* C2: when a window starts with a well-formed three-token request line
\* "POST <target containing /images/create> <version>" and a line terminator,
\* the line sent upstream is method, target and version with the method, the
\* version, the target's path and every other query parameter preserved,
\* exactly one platform parameter with the configured, URL-encoded value
\* added, and the query keys in sorted order; the specification's example
\* yields ?fromImage=x&platform=linux%2Farm64.
C2_Rewrite ==
    (pcH = "send" /\ WellFormed(window)) =>
        /\ LogInjected \in Entries(cycleLog)
        /\ RewrittenFrom(Tokens(FirstLine(window)), readBuf)
        /\ FirstLine(window) = FirstLine(SpecExample) => readBuf = ExpectedExample

\* C2 witness: the example's request line is in the window and rewritten.
C2_Witness ==
    /\ pcH = "send"
    /\ window = SpecExample
    /\ readBuf = ExpectedExample

\* ---- C3 ----
\* The request line's query string gives the platform key a value.
HasPlatformParam(w) ==
    ValuesOf(ParseQuery(RawQueryOf(Tokens(FirstLine(w))[2])).pairs, PlatformKey) # << >>

\* The pieces of the forwarded line's query string that set the platform key.
PlatformPieces(out) ==
    LET q == RawQueryOf(SplitN(out, Space, 3)[2])
    IN  { i \in 1..Len(Pieces(q)) : HasPrefix(Pieces(q)[i], PlatformKey \o << "=" >>) }

\* C3: when the matched request line already has platform parameters, however
\* many, the rewritten line has exactly one platform key, its value is the
\* configured platform, and no earlier value survives.
C3_ReplacesPlatform ==
    (pcH = "send" /\ WellFormed(window) /\ HasPlatformParam(window)) =>
        LET q == RawQueryOf(SplitN(readBuf, Space, 3)[2])
        IN  /\ LogInjected \in Entries(cycleLog)
            /\ Cardinality(PlatformPieces(readBuf)) = 1
            /\ \A i \in PlatformPieces(readBuf) :
                  Pieces(q)[i] = PlatformKey \o << "=" >> \o EncodedPlatform
            /\ ~Contains(q, << "f", "o", "o" >>)
            /\ ~Contains(q, << "b", "a", "r" >>)

\* C3 witness: the line with two platform parameters was rewritten.
C3_Witness ==
    /\ pcH = "send"
    /\ window = DupPlatform
    /\ LogInjected \in Entries(cycleLog)
    /\ Cardinality(PlatformPieces(readBuf)) = 1

\* ---- C4 ----
\* C4: fragmentation-invariance.  However the example's request line is
\* split across two reads, the bytes forwarded upstream once everything was
\* read and sent are the bytes forwarded when the line arrives in one read:
\* the rewritten line and its terminator.
C4_FragmentationInvariant ==
    (stream = SpecExample /\ Quiescent) => sent = ExpectedExample \o Newline

\* ---- C5 ----
\* Both relays have returned and both connections are closed.
AllClosed ==
    /\ pcH = "done"
    /\ pcF = "done"
    /\ connCloses > 0
    /\ dockerCloses > 0

\* C5: once the docker -> client relay has read EOF from the Docker
\* connection, the client connection is eventually closed; once the
\* client -> docker relay has read EOF from the client, the Docker connection
\* is eventually closed; either way both relays terminate and both
\* connections end up closed, without the two directions coordinating.
C5_ClosurePropagates ==
    /\ (fReadErr = "EOF") ~> (connCloses > 0 /\ AllClosed)
    /\ (readErr = "EOF") ~> (dockerCloses > 0 /\ AllClosed)

\* C5 witness: the Docker daemon's EOF came first, and both relays have
\* returned with both connections closed while the client never closed.
C5_Witness ==
    /\ fReadErr = "EOF"
    /\ ~clientGone
    /\ AllClosed

\* ---- C6 ----
\* The only failures the session met are the expected ones of a closure: an
\* EOF, a timeout, or an operation on a connection the other direction closed.
ExpectedClosure ==
    /\ LogDial \notin logs
    /\ readErr \in { "nil", "timeout", "EOF", "closed" }
    /\ fReadErr \in { "nil", "timeout", "EOF", "closed" }
    /\ writeErr = "nil"
    /\ fWriteErr = "nil"

\* C6: during an expected closure no relay direction writes an error-level
\* log entry: EOF and the failures of operating on the connection the other
\* direction closed (read, set-read-deadline) are kept out of the error log.
C6_NoErrorLogOnClosure ==
    ExpectedClosure => \A e \in logs : e[1] # "ERROR"

\* ---- C7 ----
\* C7: when dialing the Docker socket fails, the session closes the accepted
\* client connection, logs the failure and terminates without starting a
\* relay: no terminated session leaves its client connection open.
C7_DialFailureClosesClient ==
    (pcH = "done" /\ LogDial \in logs) =>
        /\ connCloses > 0
        /\ pcF = "idle"

\* ---- C8 ----
\* A window that starts with POST, holds the path marker and a line
\* terminator, and whose first line has fewer than three space-delimited
\* tokens, or a target or a query string that does not parse.
TooFewOrUnparsable(w) ==
    /\ HasPrefix(w, POST)
    /\ Contains(w, ImagesCreate)
    /\ Index(w, Newline) >= 0
    /\ \/ Len(Tokens(FirstLine(w))) < 3
       \/ Parse(Tokens(FirstLine(w))[2]).err
       \/ ParseQuery(Parse(Tokens(FirstLine(w))[2]).RawQuery).err

\* The same, or a first line of more than three tokens.
Malformed(w) ==
    /\ HasPrefix(w, POST)
    /\ Contains(w, ImagesCreate)
    /\ Index(w, Newline) >= 0
    /\ \/ Len(Tokens(FirstLine(w))) # 3
       \/ Parse(Tokens(FirstLine(w))[2]).err
       \/ ParseQuery(Parse(Tokens(FirstLine(w))[2]).RawQuery).err

\* The window is sent whole and unchanged, with a warning and no error, and
\* nothing is kept back.
SentAsIs ==
    /\ readBuf = window
    /\ dirtyBytes = 0
    /\ cycleLog = << LogNotInjected >>

C9_OnlyRequestLine ==
    LET rest == SliceFrom(stream, Index(stream, Newline) + 1)
    IN  (Quiescent /\ Index(stream, Newline) >= 0) =>
            /\ Len(sent) >= Len(rest)
            /\ SliceFrom(sent, Len(sent) - Len(rest)) = rest

\* ---- C10 ----
\* A window that fills the buffer, starts with the method token, holds the
\* path marker and has no line terminator.
TooLong(w) ==
    /\ Len(w) = BufferSize
    /\ HasPrefix(w, POST)
    /\ Contains(w, ImagesCreate)
    /\ ~Contains(w, Newline)

\* C10: a window that starts with the method token, holds the path marker,
\* has no line terminator and cannot grow (it fills the buffer) is forwarded
\* unmodified with a warning: no error is logged or raised, nothing is kept
\* back, the send that follows writes every byte of it upstream, and the
\* relay returns to the top of its loop.
C10_TooLongFailOpen ==
    /\ [](pcH = "send" /\ TooLong(window) =>
            /\ readBuf = window
            /\ dirtyBytes = 0
            /\ cycleLog = << LogTooLong >>
            /\ readErr = "nil")
    /\ [][(pcH = "send" /\ TooLong(window) /\ pcH' # "send") =>
            /\ ~dockerGone => (sent' = sent \o window /\ writeErr' = "nil")
            /\ ~dockerGone => pcH' = "deadline"]_vars

\* C10 witness: the over-long line filled the buffer, was forwarded whole,
\* and the relay is reading again.
C10_Witness ==
    /\ stream = LongLine
    /\ pcH = "read"
    /\ LogTooLong \in logs
    /\ Len(window) = BufferSize
    /\ sent = window

\* ---- C11 ----
\* C11: full-flush writes.  With a destination that takes only part of a
\* chunk per call and reports no error, each relay writes every byte of the
\* chunk exactly once and in order: what the destination has received is
\* always a prefix of what the relay read, and all of it once the write loop
\* has ended without a write error.
C11_FullFlush ==
    /\ IsPrefix(sent, Received)
    /\ (pcH \in { "deadline", "read" } /\ writeErr = "nil") => sent = Received
    /\ IsPrefix(toClient, ReceivedFromDocker)
    /\ (pcF \in { "deadline", "read" } /\ fWriteErr = "nil") => toClient = ReceivedFromDocker

\* ---- C12 ----
\* C12: no bytes are dropped at termination.  When the client -> docker
\* relay has left its loop because a read met EOF or failed otherwise, and no
\* write failed, it holds no leftover: every byte it read from the client was
\* written to the Docker connection before that connection is closed.
C12_NoBytesDropped ==
    (pcH \in { "close", "done" } /\ readErr \in { "EOF", "reset" } /\ writeErr = "nil") =>
        dirtyBytes = 0

\* ---- C13 ----
\* The check of the path let startup go on to net.Listen, or ended it.
GuardPassed == pcM \in { "listen", "accept" } \/ LogListenFailed \in logs

GuardAborted == pcM = "exit" /\ exitCode = 1 /\ LogListenFailed \notin logs

\* C13: the socket lifecycle guard.  Once the path was checked: if nothing
\* was there, startup goes on and nothing was removed; if a Unix domain socket
\* was there, it was removed and startup goes on (when the removal itself
\* fails, startup aborts with a fatal error); if anything else was there,
\* startup aborted with a fatal error and nothing was removed.
C13_SocketGuard ==
    /\ pcM = "guard" => ~removed
    /\ pcM # "guard" =>
          /\ found = "absent" => (GuardPassed /\ ~removed)
          /\ found = "socket" =>
                \/ GuardPassed /\ removed /\ LogRemovedOld \in logs
                \/ GuardAborted /\ ~removed /\ << "CRITICAL", ErrRemove >> \in logs
          /\ found \notin { "absent", "socket" } =>
                /\ GuardAborted
                /\ ~removed
                /\ \E e \in logs : e[1] = "CRITICAL"

\* C13 witness: a regular file was at the path; startup aborted with a fatal
\* error and the file is still there.
C13_Witness ==
    /\ found = "file"
    /\ pcM = "exit"
    /\ exitCode = 1
    /\ << "CRITICAL", ErrNotSocket >> \in logs
    /\ ~removed

\* ---- C15 ----
\* C15: the listener.  An accepted connection gets its session and the
\* accept loop goes on, an accept error that passes is logged and the loop
\* goes on, and once the listener itself is unusable (Accept fails for good)
\* the process has exited with a fatal error instead of calling Accept again.
C15_ListenerFailureIsFatal ==
    /\ (pcM = "accept" /\ acceptErr = "EMFILE") => (LogAccept \in logs /\ exitCode = -1)
    /\ accepted > 0 => LogNewConnection \in logs \/ pcM = "accept"
    /\ acceptErr = "closed" => (pcM = "exit" /\ exitCode = 1)

\* ---- C14 ----
\* C14: connection ownership.  In a session whose dial succeeded the client
\* connection is closed by the docker -> client relay and by it alone, the
\* Docker connection by the client -> docker relay and by it alone, each when
\* the relay returns: so each connection is closed at most once, and exactly
\* once when its relay has returned, in every interleaving of the two.
C14_Ownership ==
    /\ [](pcF # "idle" =>
            /\ connCloses = (IF pcF = "done" THEN 1 ELSE 0)
            /\ dockerCloses = (IF pcH = "done" THEN 1 ELSE 0))
    /\ [][/\ connCloses' # connCloses =>
                (pcF = "close" /\ pcF' = "done" /\ dockerCloses' = dockerCloses /\ pcH' = pcH)
          /\ dockerCloses' # dockerCloses =>
                (pcH = "close" /\ pcH' = "done" /\ connCloses' = connCloses /\ pcF' = pcF)]_vars

\* C14 witness: the client closed first, both relays have returned and each
\* has logged the closing of its own destination.
C14_Witness ==
    /\ clientGone
    /\ ~dockerGone
    /\ pcH = "done"
    /\ pcF = "done"
    /\ connCloses = 1
    /\ dockerCloses = 1
    /\ LogClosedClientDocker \in logs
    /\ LogClosedDockerClient \in logs

\* ---- C16 ----
\* A window that starts with the method token, holds the path marker, has
\* no line terminator and does not fill the buffer.
Incomplete(w) ==
    /\ Len(w) < BufferSize
    /\ HasPrefix(w, POST)
    /\ Contains(w, ImagesCreate)
    /\ ~Contains(w, Newline)

\* C16: the decision on an incomplete request line is deferred.  When the
\* window starts with the method token, holds the path marker, has no line
\* terminator and is smaller than the buffer, nothing is forwarded in that
\* cycle and the whole window is kept as leftover for the next cycle.
C16_DeferredDecision ==
    (pcH = "send" /\ Incomplete(window)) =>
        /\ readBuf = << >>
        /\ dirtyBytes = Len(window)
        /\ Slice(buffer, 0, dirtyBytes) = window

\* ---- C17 ----
\* A window that holds both markers with the method token behind other bytes.
SplitCase(w) == Matches(w) /\ Index(w, POST) > 0

\* C17: the prefix split.  When the window holds both markers and the
\* method token first occurs at p > 0, the bytes forwarded in the cycle are
\* window[0..p), the leftover is window[p..end), copied down to the start of
\* the buffer, with dirty length = window length - p; the send writes exactly
\* the prefix and leaves the leftover alone, and every cycle's window is the
\* leftover followed by the bytes newly read, so that the split duplicates,
\* loses and reorders nothing.
C17_PrefixSplit ==
    /\ []((pcH = "send" /\ SplitCase(window)) =>
            /\ readBuf = Slice(window, 0, Index(window, POST))
            /\ dirtyBytes = Len(window) - Index(window, POST)
            /\ Slice(buffer, 0, dirtyBytes) = SliceFrom(window, Index(window, POST))
            /\ readBuf \o Slice(buffer, 0, dirtyBytes) = window)
    /\ [][(pcH = "send" /\ pcH' # "send" /\ SplitCase(window) /\ ~dockerGone) =>
            /\ sent' = sent \o Slice(window, 0, Index(window, POST))
            /\ readErr = "nil" => pcH' = "deadline"]_vars
    /\ [][(pcH = "send" \/ pcH = "deadline") =>
            (buffer' = buffer /\ dirtyBytes' = dirtyBytes)]_vars
    /\ [][(pcH = "read" /\ pcH' = "send") =>
            window' = Slice(buffer, 0, dirtyBytes) \o Slice(stream, pos, pos')]_vars

\* C17 witness: the header line that mentions both markers was split off
\* the bytes before it, and the next window is that leftover followed by the
\* bytes of the second read.
C17_Witness ==
    /\ stream = HeaderMention
    /\ cut < Len(stream)
    /\ pos = Len(stream)
    /\ pcH = "send"
    /\ bytesRead > Len(stream) - cut
    /\ window = SliceFrom(stream, Index(stream, POST))
    /\ sent = Slice(stream, 0, Index(stream, POST))

\* ---- C18 ----
\* C18: the bound of the scan buffer.  In every state of the client ->
\* docker relay the leftover and the bytes newly read fit the buffer
\* together, the leftover alone never fills it, so that no read is issued
\* with an empty destination, and the bytes read and not yet forwarded (the
\* window while it is being sent, the leftover otherwise) never exceed one
\* buffer.
C18_BufferBound ==
    /\ [](/\ Len(buffer) = BufferSize
          /\ dirtyBytes >= 0
          /\ dirtyBytes < BufferSize
          /\ bytesRead <= BufferSize
          /\ Len(window) <= BufferSize
          /\ dirtyBytes <= Len(window))
    /\ [][(pcH = "read" /\ pcH' # "read") =>
            /\ BufferSize - dirtyBytes > 0
            /\ dirtyBytes + (pos' - pos) <= BufferSize
            /\ bytesRead' = dirtyBytes + (pos' - pos)]_vars

\* C18 witness: behind one byte of other traffic the over-long line was
\* split off, all but one byte of the buffer was leftover, and the next read
\* filled the buffer to its last byte.
C18_Witness ==
    /\ stream = PrefixedLong
    /\ pcH = "send"
    /\ HasPrefix(window, POST)
    /\ Len(window) = BufferSize
    /\ bytesRead = BufferSize
    /\ pos = BufferSize + 1

\* ---- C19 ----
\* A relay has left its loop for a reason other than a timeout: a read met
\* EOF or failed, a write failed, or its source connection was closed.
StoppedForCause(rErr, wErr, srcCloses) ==
    rErr \in { "EOF", "reset", "closed" } \/ wErr # "nil" \/ srcCloses > 0

\* C19: read timeouts are wake-ups.  In both directions a read that times
\* out with no byte to handle writes nothing and the loop starts over; a read
\* that times out with bytes clears the error, the bytes are forwarded and the
\* loop goes on; no relay leaves its loop because of a timeout; and while
\* neither peer has closed and no read has failed, no connection is closed.
C19_TimeoutsAreWakeUps ==
    /\ [][(pcH = "read" /\ pcH' # "read" /\ rawErr' = "timeout") =>
            IF bytesRead' = 0
            THEN pcH' = "deadline" /\ sent' = sent /\ dockerCloses' = dockerCloses
            ELSE pcH' = "send" /\ readErr' = "nil" /\ Len(window') = bytesRead']_vars
    /\ [][(pcH = "send" /\ pcH' # "send" /\ rawErr = "timeout" /\ ~dockerGone) =>
            (pcH' = "deadline" /\ sent' = sent \o readBuf)]_vars
    /\ [][(pcF = "read" /\ pcF' # "read" /\ fRawErr' = "timeout") =>
            IF rpos' = rpos
            THEN pcF' = "deadline" /\ toClient' = toClient /\ connCloses' = connCloses
            ELSE pcF' = "write" /\ fReadErr' = "nil" /\ Len(fReadBuf') = rpos' - rpos]_vars
    /\ [][(pcF = "write" /\ pcF' # "write" /\ fRawErr = "timeout" /\ ~clientGone) =>
            (pcF' = "deadline" /\ toClient' = toClient \o fReadBuf)]_vars
    /\ []((pcF # "idle" /\ pcH \in { "close", "done" }) =>
            StoppedForCause(readErr, writeErr, connCloses))
    /\ [](pcF \in { "close", "done" } => StoppedForCause(fReadErr, fWriteErr, dockerCloses))
    /\ []((/\ pcF # "idle"
           /\ ~clientGone
           /\ ~dockerGone
           /\ readErr \in { "nil", "timeout" }
           /\ fReadErr \in { "nil", "timeout" }) =>
            /\ connCloses = 0
            /\ dockerCloses = 0
            /\ pcH \in { "deadline", "read", "send" }
            /\ pcF \in { "deadline", "read", "write" })

\* C19 witness: the client's bytes came with a read that timed out and are
\* on their way upstream, while the docker -> client relay is back at the top
\* of its loop after a read that timed out empty-handed.
C19_Witness ==
    /\ pcH = "send"
    /\ rawErr = "timeout"
    /\ readErr = "nil"
    /\ bytesRead > 0
    /\ pcF = "deadline"
    /\ fRawErr = "timeout"
    /\ fReadErr = "timeout"
    /\ toClient = << >>
    /\ connCloses = 0
    /\ dockerCloses = 0

\* ---- C20 ----
\* What a successful rewrite leaves behind on the streams of the fair
\* session: the line terminator, alone or followed by the header lines.
Leftovers == { Newline, SliceFrom(TwoKeys, Index(TwoKeys, Newline)) }

EndsWith(s, l) == Len(s) >= Len(l) /\ SliceFrom(s, Len(s) - Len(l)) = l

\* A peer has closed or a read has failed.
Disturbed ==
    \/ clientGone
    \/ dockerGone
    \/ readErr \notin { "nil", "timeout" }
    \/ fReadErr \notin { "nil", "timeout" }

\* What the prefix split leaves behind on the stream with the header line
\* that mentions both markers, and what is written upstream for it: the line
\* with the platform injected, and its terminator.
SplitLeftover == SliceFrom(HeaderMention, Index(HeaderMention, POST))

SplitLeftoverWritten == injectPlatform(FirstLine(SplitLeftover), Platform).injected \o Newline

\* C20: leftover flush.  When a cycle has left leftover bytes (after a
\* rewrite, or after a prefix split) and the client has nothing further to
\* send, then, unless a peer closes or a read fails, every leftover byte is
\* eventually written upstream: the next read, even one that times out,
\* completes a non-empty window, and the window is forwarded.
C20_LeftoverFlushed ==
    /\ \A l \in Leftovers :
          (/\ pcH = "deadline"
           /\ pos = Len(stream)
           /\ dirtyBytes = Len(l)
           /\ Slice(buffer, 0, dirtyBytes) = l)
          ~> (Disturbed \/ (dirtyBytes = 0 /\ EndsWith(sent, l)))
    /\ (/\ pcH = "deadline"
        /\ pos = Len(stream)
        /\ dirtyBytes = Len(SplitLeftover)
        /\ Slice(buffer, 0, dirtyBytes) = SplitLeftover)
       ~> (Disturbed \/ (dirtyBytes = 0 /\ EndsWith(sent, SplitLeftoverWritten)))

\* C20 witness: the request line was rewritten, the header lines behind it
\* were leftover, and a read that timed out with nothing new flushed them.
C20_Witness ==
    /\ stream = TwoKeys
    /\ ~Disturbed
    /\ LogInjected \in logs
    /\ pcH = "deadline"
    /\ rawErr = "timeout"
    /\ pos = Len(stream)
    /\ dirtyBytes = 0
    /\ EndsWith(sent, SliceFrom(TwoKeys, Index(TwoKeys, Newline)))

=============================================================================
